---- MODULE Spec2Model ----
(***************************************************************************)
(* A state-machine model of the flower-shop chat bot (src/flowers.py).     *)
(*                                                                         *)
(* The store is the six-table SQLite schema of init_db; a conversation's   *)
(* FSM context (aiogram FSMContext: a state and a data dictionary) is kept *)
(* per identity.  One action models one handler run from its first line to *)
(* its last, store writes, session writes and outbound messages included.  *)
(*                                                                         *)
(* Conventions                                                             *)
(*  - a text message is a sequence of one-character strings, so that       *)
(*    strip(), int(), float() and the phone pattern are computed;          *)
(*  - a button token carries whatever ids the sender puts in it: handlers  *)
(*    match tokens by prefix and parse the ids, they never check that the  *)
(*    button was offered;                                                  *)
(*  - a reply to the sender of the event being handled is delivered;       *)
(*    safe_send_message (to the staff channel, an admin or a customer)     *)
(*    succeeds or fails nondeterministically;                              *)
(*  - the store outlives the process (flowers.db, CREATE TABLE IF NOT      *)
(*    EXISTS), the sessions do not: a run starts with a stocked catalog,   *)
(*    possibly with filled carts, and with idle sessions;                  *)
(*  - the whole program is too large to explore at once: each family of    *)
(*    properties is checked under a specification of its own, in which the *)
(*    identities and the events that matter to it take part.               *)
(***************************************************************************)
EXTENDS Integers, Sequences, FiniteSets, TLC

VARIABLES
    cities,         \* table cities: id -> name
    city_seq,       \* AUTOINCREMENT counter of cities
    products,       \* table products: id -> [city_id, name, description, price]
    product_seq,    \* AUTOINCREMENT counter of products
    cart,           \* table cart, in rowid order: rows [user_id, product_id, quantity]
    orders,         \* table orders, row i has id i (rows are never deleted)
    users,          \* table users: id -> agreed_to_terms (0 or 1)
    fsm_state,      \* identity -> waypoint ("idle" is aiogram's None)
    fsm_data,       \* identity -> field bag (a function from keys to values)
    out,            \* what the last handler run sent
    entered,        \* history: sum of the valid quantities entered per (user, product) since the user's cart was emptied
    adds,           \* history: number of valid quantities entered per user since the user's cart was emptied
    snap,           \* history, until the session is cleared: the order flow the identity last
                    \* entered (buy or cart_checkout), the product of its last buy button,
                    \* whether that product was gone when the button was pressed, and
                    \* what its last cart_checkout read from the store, and the phone and
                    \* area texts the identity sent since it entered that flow (forgotten
                    \* when it leaves the flow for the quantity question)
    inflight        \* the handler runs that are suspended at an await: [id, user, text, data]

vars == <<cities, city_seq, products, product_seq, cart, orders, users,
          fsm_state, fsm_data, out, entered, adds, snap, inflight>>

store == <<cities, city_seq, products, product_seq, cart, orders, users>>
catalog == <<cities, city_seq, products, product_seq>>
session == <<fsm_state, fsm_data, snap>>
hist == <<entered, adds, inflight>>

-----------------------------------------------------------------------------
(* Bounds of the model *)

MaxAdds == 3            \* largest number of quantities entered into the carts as they stand
MaxOrders == 3          \* largest number of order rows
MaxCities == 3          \* largest city id handed out
MaxProducts == 4        \* largest product id handed out
MaxFlights == 2         \* largest number of suspended handler runs

-----------------------------------------------------------------------------
(* Identities *)

ADMIN_IDS == {"a1", "a2"}
Customers == {"u1", "u2"}
Users == ADMIN_IDS \cup Customers
MANAGER_CHAT_ID == "staff"

-----------------------------------------------------------------------------
(* Texts *)

Digits == {"0", "1", "2", "3", "4", "5", "6", "7", "8", "9"}

DigitVal(c) ==
    CASE c = "0" -> 0 [] c = "1" -> 1 [] c = "2" -> 2 [] c = "3" -> 3
      [] c = "4" -> 4 [] c = "5" -> 5 [] c = "6" -> 6 [] c = "7" -> 7
      [] c = "8" -> 8 [] c = "9" -> 9

RECURSIVE LStrip(_)
LStrip(s) == IF s # <<>> /\ Head(s) = " " THEN LStrip(Tail(s)) ELSE s

RECURSIVE RStrip(_)
RStrip(s) ==
    IF s # <<>> /\ s[Len(s)] = " " THEN RStrip(SubSeq(s, 1, Len(s) - 1)) ELSE s

\* str.strip()
Strip(s) == RStrip(LStrip(s))

AllDigits(s) == \A i \in 1..Len(s) : s[i] \in Digits

RECURSIVE DigitsVal(_)
DigitsVal(s) ==
    IF s = <<>> THEN 0
    ELSE 10 * DigitsVal(SubSeq(s, 1, Len(s) - 1)) + DigitVal(s[Len(s)])

Unsigned(t) == IF t # <<>> /\ Head(t) \in {"+", "-"} THEN Tail(t) ELSE t

\* int(text) raises ValueError unless the text is an optionally signed run of digits
IsInt(s) == Unsigned(Strip(s)) # <<>> /\ AllDigits(Unsigned(Strip(s)))

IntOf(s) ==
    LET t == Strip(s)
    IN  IF Head(t) = "-" THEN 0 - DigitsVal(Tail(t)) ELSE DigitsVal(Unsigned(t))

\* The pattern matched at the start of the text only
valid_phone_Prefix(phone) ==
    \/ /\ Len(phone) >= 13
       /\ SubSeq(phone, 1, 4) = <<"+", "3", "8", "0">>
       /\ AllDigits(SubSeq(phone, 5, 13))
    \/ /\ Len(phone) >= 10
       /\ phone[1] = "0"
       /\ AllDigits(SubSeq(phone, 2, 10))

\* re.fullmatch(r'(\+380\d{9}|0\d{9})', phone)
valid_phone(phone) ==
    \/ /\ Len(phone) = 13
       /\ SubSeq(phone, 1, 4) = <<"+", "3", "8", "0">>
       /\ AllDigits(SubSeq(phone, 5, 13))
    \/ /\ Len(phone) = 10
       /\ phone[1] = "0"
       /\ AllDigits(SubSeq(phone, 2, 10))

-----------------------------------------------------------------------------
(* Inputs *)

QtyTexts == { <<"1">>, <<" ", "1", "0">>, <<"0">>, <<"1", "1">>, <<"-", "1">>,
              <<"a">>, <<>> }

PhoneTexts == { <<"0", "5", "0", "1", "2", "3", "4", "5", "6", "7">>,
                <<"0", "5", "0", "1", "2", "3", "4", "5", "6">> }

AreaTexts == { <<"c">> }
CommentTexts == { <<"-">> }
FeedbackTexts == { <<" ", "o", "k">> }

ProductIds == 1..MaxProducts
CityIds == 1..MaxCities
OrderIds == 1..MaxOrders

-----------------------------------------------------------------------------
(* Sessions: FSMContext *)

NoData == <<>>

\* state.update_data(**new)
update_data(d, new) == new @@ d

Has(d, k) == k \in DOMAIN d

\* dict.get(k) as a truth value
Truthy(d, k) == Has(d, k) /\ d[k] = TRUE

\* No order flow entered since the session was last cleared
NoFlow == [flow |-> "none", product_id |-> 0, gone |-> FALSE, items |-> <<>>,
           phone |-> <<>>, area |-> <<>>]

\* The handler leaves the session as it is
Stay == UNCHANGED <<fsm_state, fsm_data, snap>>

\* state.update_data(**new); state.set_state(waypoint)
Move(u, waypoint, new) ==
    /\ fsm_data' = [fsm_data EXCEPT ![u] = update_data(@, new)]
    /\ fsm_state' = [fsm_state EXCEPT ![u] = waypoint]
    /\ UNCHANGED snap

\* A clear that empties the whole session storage
Clear_Everyone(u) ==
    /\ fsm_state' = [v \in Users |-> "idle"]
    /\ fsm_data' = [v \in Users |-> NoData]
    /\ snap' = [v \in Users |-> NoFlow]

\* state.clear()
Clear(u) ==
    /\ fsm_state' = [fsm_state EXCEPT ![u] = "idle"]
    /\ fsm_data' = [fsm_data EXCEPT ![u] = NoData]
    /\ snap' = [snap EXCEPT ![u] = NoFlow]

-----------------------------------------------------------------------------
(* Queries *)

RECURSIVE SumSeq(_)
SumSeq(s) == IF s = <<>> THEN 0 ELSE Head(s) + SumSeq(Tail(s))

RECURSIVE SumOver(_, _)
SumOver(f, S) ==
    IF S = {} THEN 0
    ELSE LET x == CHOOSE y \in S : TRUE IN f[x] + SumOver(f, S \ {x})

Map1(s, F(_)) == [i \in 1..Len(s) |-> F(s[i])]

\* SELECT id, quantity FROM cart WHERE user_id=? AND product_id=?, by position
LinesOf(c, u, pid) == {i \in 1..Len(c) : c[i].user_id = u /\ c[i].product_id = pid}

UserLines(u) == SelectSeq(cart, LAMBDA r : r.user_id = u)

\* FROM cart JOIN products JOIN cities: the rows that survive both joins
Joined(r) ==
    /\ r.product_id \in DOMAIN products
    /\ products[r.product_id].city_id \in DOMAIN cities

JoinedLines(u) == SelectSeq(cart, LAMBDA r : r.user_id = u /\ Joined(r))

CityNameOf(pid) == cities[products[pid].city_id]

\* get_user_cart_city: SELECT DISTINCT c.id, c.name ... LIMIT 1, as the
\* sequence of the rows fetched (none, or one city)
get_user_cart_city(u) ==
    IF JoinedLines(u) = <<>> THEN <<>>
    ELSE LET cid == products[JoinedLines(u)[1].product_id].city_id
         IN  << <<cid, cities[cid]>> >>

\* The snapshot of the first line only
CartItems_FirstOnly(u) ==
    IF JoinedLines(u) = <<>> THEN <<>>
    ELSE LET r == JoinedLines(u)[1]
         IN  << << r.product_id, r.quantity, products[r.product_id].name,
                   products[r.product_id].price, CityNameOf(r.product_id) >> >>

\* cart_checkout's SELECT: (product_id, quantity, name, price, city_name)
CartItems(u) ==
    Map1(JoinedLines(u),
         LAMBDA r : << r.product_id, r.quantity, products[r.product_id].name,
                       products[r.product_id].price, CityNameOf(r.product_id) >>)

\* sum(item[3] * item[1] for item in cart_items)
TotalPrice(items) == SumSeq(Map1(items, LAMBDA it : it[4] * it[2]))

-----------------------------------------------------------------------------
(* Outbound messages of one handler run *)

NoMsg == [kind |-> "none"]

Out(u, ev, reply) ==
    [user |-> u, event |-> ev, reply |-> reply,
     staff |-> NoMsg, staff_ok |-> TRUE, fallback |-> {}, fallback_msg |-> NoMsg,
     customer |-> NoMsg, view |-> NoMsg]

-----------------------------------------------------------------------------
(* The state a run starts in *)

Rose == <<"r">>
Tulip == <<"t">>
Kyiv == <<"K">>
Lviv == <<"L">>

\* The history of a cart table that the process finds: each line was entered once
EnteredOf(c) ==
    [u \in Users |-> [p \in ProductIds |->
        SumOver([i \in LinesOf(c, u, p) |-> c[i].quantity], LinesOf(c, u, p))]]

AddsOf(c) == [u \in Users |-> Len(SelectSeq(c, LAMBDA r : r.user_id = u))]

\* A run that starts on a store whose cart table is c
StartWith(c) ==
    /\ cities = (1 :> Kyiv) @@ (2 :> Lviv)
    /\ city_seq = 2
    /\ products = (1 :> [city_id |-> 1, name |-> Rose, description |-> <<"d">>, price |-> 100])
               @@ (2 :> [city_id |-> 2, name |-> Rose, description |-> <<"d">>, price |-> 100])
               @@ (3 :> [city_id |-> 1, name |-> Tulip, description |-> <<"d">>, price |-> 30])
    /\ product_seq = 3
    /\ cart = c
    /\ orders = <<>>
    /\ users = [u \in {c[i].user_id : i \in 1..Len(c)} |-> 1]
    /\ fsm_state = [u \in Users |-> "idle"]
    /\ fsm_data = [u \in Users |-> NoData]
    /\ out = Out("u1", "start", "none")
    /\ entered = EnteredOf(c)
    /\ adds = AddsOf(c)
    /\ snap = [u \in Users |-> NoFlow]
    /\ inflight = {}

Init == StartWith(<<>>)

-----------------------------------------------------------------------------
(* Registration and terms *)

\* A registration that writes the row again
register_user_Replace(us, user_id) == (user_id :> 0) @@ [u \in DOMAIN us \ {user_id} |-> us[u]]

\* INSERT OR IGNORE INTO users (id, ...): agreed_to_terms DEFAULT 0
register_user(us, user_id) ==
    IF user_id \in DOMAIN us THEN us ELSE (user_id :> 0) @@ us

\* SELECT agreed_to_terms FROM users WHERE id=?
check_user_terms_agreement(us, user_id) == user_id \in DOMAIN us /\ us[user_id] = 1

\* @dp.message(CommandStart())
cmd_start(u) ==
    /\ users' = register_user(users, u)
    /\ out' = Out(u, "/start", IF check_user_terms_agreement(users', u)
                               THEN "welcome_back" ELSE "terms")
    /\ Stay
    /\ UNCHANGED <<catalog, cart, orders, hist>>

\* @dp.callback_query(F.data == "terms_accept")
\* UPDATE users SET agreed_to_terms=1 WHERE id=?
accept_terms(u) ==
    /\ users' = [v \in DOMAIN users |-> IF v = u THEN 1 ELSE users[v]]
    /\ out' = Out(u, "terms_accept", "thanks")
    /\ Stay
    /\ UNCHANGED <<catalog, cart, orders, hist>>

\* @dp.callback_query(F.data == "terms_decline")
decline_terms(u) ==
    /\ out' = Out(u, "terms_decline", "declined")
    /\ Stay
    /\ UNCHANGED <<store, hist>>

-----------------------------------------------------------------------------
(* Cart *)

\* The decision of add_to_cart (lines 1518-1533)
\*   "conflict": the cart's city differs from the product's city
\*   "error":    a None row is subscripted (the product, or its city, is gone)
\*   "ok"
AddToCartOutcome(u, pid) ==
    LET user_cart_city == get_user_cart_city(u)
        has_city == pid \in DOMAIN products /\ products[pid].city_id \in DOMAIN cities
    IN  IF user_cart_city # <<>> /\ ~has_city THEN "error"
        ELSE IF user_cart_city # <<>> /\ user_cart_city[1][2] # CityNameOf(pid)
        THEN "conflict"
        ELSE IF pid \notin DOMAIN products THEN "error"
        ELSE "ok"

\* @dp.callback_query(F.data.startswith("add_to_cart:"))
add_to_cart(u, pid) ==
    LET res == AddToCartOutcome(u, pid)
    IN  /\ IF res = "ok"
           THEN /\ fsm_data' = [fsm_data EXCEPT ![u] =
                        update_data(@, [product_id |-> pid,
                                        product_name |-> products[pid].name])]
                /\ fsm_state' = [fsm_state EXCEPT ![u] = "waiting_for_quantity"]
                /\ snap' = [snap EXCEPT ![u] = [@ EXCEPT !.phone = <<>>, !.area = <<>>]]
                /\ out' = Out(u, "add_to_cart", "ask_quantity")
           ELSE /\ Stay
                /\ out' = Out(u, "add_to_cart",
                              IF res = "conflict" THEN "city_conflict" ELSE "error")
        /\ UNCHANGED <<store, hist>>

\* The merge that stores the entered quantity instead of the sum
CartAdd_Overwrite(c, u, pid, q) ==
    LET hits == LinesOf(c, u, pid)
    IN  IF hits # {}
        THEN [i \in 1..Len(c) |-> IF i \in hits THEN [c[i] EXCEPT !.quantity = q] ELSE c[i]]
        ELSE Append(c, [user_id |-> u, product_id |-> pid, quantity |-> q])

\* The insert without the lookup of an existing line
CartAdd_AlwaysInsert(c, u, pid, q) ==
    Append(c, [user_id |-> u, product_id |-> pid, quantity |-> q])

\* The cart after a valid quantity (lines 1561-1579): merge into the first
\* line of (user, product), or append a line
CartAdd(c, u, pid, q) ==
    LET hits == LinesOf(c, u, pid)
    IN  IF hits # {}
        THEN LET i == CHOOSE j \in hits : \A k \in hits : j <= k
             IN  [c EXCEPT ![i].quantity = @ + q]
        ELSE Append(c, [user_id |-> u, product_id |-> pid, quantity |-> q])

\* The range test without its upper limit
OutOfRange_NoUpper(quantity) == quantity < 1

\* if quantity < 1 or quantity > 10
OutOfRange(quantity) == quantity < 1 \/ quantity > 10

\* @dp.message(CartQuantityState.waiting_for_quantity, F.text)
add_to_cart_with_quantity(u, text) ==
    /\ fsm_state[u] = "waiting_for_quantity"
    /\ IF ~IsInt(text)
       THEN /\ out' = Out(u, "quantity", "reprompt_number")
            /\ Stay
            /\ UNCHANGED <<store, hist>>
       ELSE IF OutOfRange(IntOf(text))
       THEN /\ out' = Out(u, "quantity", "reprompt_range")
            /\ Stay
            /\ UNCHANGED <<store, hist>>
       ELSE LET pid == fsm_data[u].product_id
                q == IntOf(text)
            IN  /\ SumOver(adds, Users) < MaxAdds
                /\ cart' = CartAdd(cart, u, pid, q)
                /\ Clear(u)
                /\ out' = Out(u, "quantity", "added")
                /\ entered' = [entered EXCEPT ![u][pid] = @ + q]
                /\ adds' = [adds EXCEPT ![u] = @ + 1]
                /\ UNCHANGED <<catalog, orders, users, inflight>>

Reverse(s) == [i \in 1..Len(s) |-> s[Len(s) + 1 - i]]

\* The sum of the prices, the quantities left out
ShownTotal_NoQuantity(lines) ==
    SumSeq(Map1(lines, LAMBDA r : products[r.product_id].price))

\* total_price = sum(item[2] * item[3] for item in cart_items)
ShownTotal(lines) ==
    SumSeq(Map1(lines, LAMBDA r : products[r.product_id].price * r.quantity))

\* @dp.callback_query(F.data == "main_cart")
\* The rows come ORDER BY added_at DESC; added_at has a resolution of one
\* second, so any row can be the first one, which gives the city of the title
show_cart(u) ==
    LET lines == JoinedLines(u)
    IN  /\ IF lines = <<>>
           THEN out' = Out(u, "main_cart", "cart_empty")
           ELSE \E first \in 1..Len(lines) :
                  out' = [Out(u, "main_cart", "cart") EXCEPT
                            !.view = [kind |-> "cart",
                                      city |-> CityNameOf(lines[first].product_id),
                                      items |-> Reverse(Map1(lines, LAMBDA r :
                                          <<products[r.product_id].name,
                                            products[r.product_id].price, r.quantity,
                                            products[r.product_id].price * r.quantity>>)),
                                      total |-> ShownTotal(lines)]]
        /\ Stay
        /\ UNCHANGED <<store, hist>>

\* A clear that empties the cart table and ends the session
clear_cart_Everyone(u) ==
    /\ cart' = <<>>
    /\ out' = Out(u, "cart_clear", "cleared")
    /\ entered' = [v \in Users |-> [p \in ProductIds |-> 0]]
    /\ adds' = [v \in Users |-> 0]
    /\ Clear(u)
    /\ UNCHANGED <<catalog, orders, users, inflight>>

\* @dp.callback_query(F.data == "cart_clear")
clear_cart(u) ==
    /\ cart' = SelectSeq(cart, LAMBDA r : r.user_id # u)
    /\ out' = Out(u, "cart_clear", "cleared")
    /\ entered' = [entered EXCEPT ![u] = [p \in ProductIds |-> 0]]
    /\ adds' = [adds EXCEPT ![u] = 0]
    /\ Stay
    /\ UNCHANGED <<catalog, orders, users, inflight>>

\* @dp.callback_query(F.data == "cart_checkout")
cart_checkout(u) ==
    /\ IF CartItems(u) = <<>>
       THEN /\ out' = Out(u, "cart_checkout", "cart_empty")
            /\ Stay
       ELSE /\ fsm_data' = [fsm_data EXCEPT ![u] =
                   update_data(@, [cart_items |-> CartItems(u), user_id |-> u,
                                   is_cart_order |-> TRUE])]
            /\ fsm_state' = [fsm_state EXCEPT ![u] = "waiting_for_phone"]
            /\ out' = Out(u, "cart_checkout", "ask_phone")
            /\ snap' = [snap EXCEPT ![u] = [@ EXCEPT !.flow = "cart", !.items = CartItems(u),
                                    !.phone = <<>>, !.area = <<>>]]
    /\ UNCHANGED <<store, hist>>

-----------------------------------------------------------------------------
(* Orders *)

\* A buy button that skips the questions whose answers are in the field bag
buy_product_KeepsContact(u, pid) ==
    /\ fsm_data' = [fsm_data EXCEPT ![u] =
            update_data(@, [product_id |-> pid, user_id |-> u])]
    /\ fsm_state' = [fsm_state EXCEPT ![u] =
            IF Has(fsm_data[u], "phone") /\ Has(fsm_data[u], "area")
            THEN "waiting_for_comment" ELSE "waiting_for_phone"]
    /\ snap' = [snap EXCEPT ![u] = [@ EXCEPT !.flow = "buy", !.product_id = pid,
                                                 !.gone = pid \notin DOMAIN products,
                                                 !.phone = <<>>, !.area = <<>>]]
    /\ out' = Out(u, "buy", "ask_phone")
    /\ UNCHANGED <<store, hist>>

\* @dp.callback_query(F.data.startswith("buy:"))
buy_product(u, pid) ==
    /\ fsm_data' = [fsm_data EXCEPT ![u] =
            update_data(@, [product_id |-> pid, user_id |-> u])]
    /\ fsm_state' = [fsm_state EXCEPT ![u] = "waiting_for_phone"]
    /\ snap' = [snap EXCEPT ![u] = [@ EXCEPT !.flow = "buy", !.product_id = pid,
                                                 !.gone = pid \notin DOMAIN products,
                                                 !.phone = <<>>, !.area = <<>>]]
    /\ out' = Out(u, "buy", "ask_phone")
    /\ UNCHANGED <<store, hist>>

\* @dp.message(OrderStates.waiting_for_phone, F.text)
order_phone(u, text) ==
    /\ fsm_state[u] = "waiting_for_phone"
    /\ IF ~valid_phone(Strip(text))
       THEN /\ out' = Out(u, "phone", "bad_phone")
            /\ Stay
       ELSE /\ fsm_data' = [fsm_data EXCEPT ![u] = update_data(@, [phone |-> Strip(text)])]
            /\ fsm_state' = [fsm_state EXCEPT ![u] = "waiting_for_area"]
            /\ snap' = [snap EXCEPT ![u] = [@ EXCEPT !.phone = text]]
            /\ out' = Out(u, "phone", "ask_area")
    /\ UNCHANGED <<store, hist>>

\* @dp.message(OrderStates.waiting_for_area, F.text)
order_area(u, text) ==
    /\ fsm_state[u] = "waiting_for_area"
    /\ fsm_data' = [fsm_data EXCEPT ![u] = update_data(@, [area |-> Strip(text)])]
    /\ fsm_state' = [fsm_state EXCEPT ![u] = "waiting_for_comment"]
    /\ snap' = [snap EXCEPT ![u] = [@ EXCEPT !.area = text]]
    /\ out' = Out(u, "area", "ask_comment")
    /\ UNCHANGED <<store, hist>>

OrderRow(uid, pid, phone, area, comment) ==
    [user_id |-> uid, product_id |-> pid, phone |-> phone, area |-> area,
     comment |-> comment, status |-> "pending"]

Repeat(x, n) == [i \in 1..n |-> x]

\* One order row per cart line, whatever its quantity
CartOrderRows_PerLine(items, uid, phone, area, comment) ==
    Map1(items, LAMBDA it : OrderRow(uid, it[1], phone, area, comment))

\* for product_id, quantity, ... in cart_items: for _ in range(quantity): INSERT
RECURSIVE CartOrderRows(_, _, _, _, _)
CartOrderRows(items, uid, phone, area, comment) ==
    IF items = <<>> THEN <<>>
    ELSE Repeat(OrderRow(uid, Head(items)[1], phone, area, comment), Head(items)[2])
         \o CartOrderRows(Tail(items), uid, phone, area, comment)

\* The notification with the buttons of the last order row
CartOrderMsg_KeyedByLast(first_id, n, uid, items, phone, area, comment) ==
    [kind |-> "cart_order",
     order_ids |-> [i \in 1..n |-> first_id + i - 1],
     user_id |-> uid,
     city |-> items[1][5],
     phone |-> phone, area |-> area, comment |-> comment,
     items |-> Map1(items, LAMBDA it : <<it[3], it[2], it[4] * it[2]>>),
     total |-> TotalPrice(items),
     accept |-> first_id + n - 1, reject |-> first_id + n - 1]

\* The notification of a cart order (lines 760-787)
CartOrderMsg(first_id, n, uid, items, phone, area, comment) ==
    [kind |-> "cart_order",
     order_ids |-> [i \in 1..n |-> first_id + i - 1],
     user_id |-> uid,
     city |-> items[1][5],
     phone |-> phone, area |-> area, comment |-> comment,
     items |-> Map1(items, LAMBDA it : <<it[3], it[2], it[4] * it[2]>>),
     total |-> TotalPrice(items),
     accept |-> first_id, reject |-> first_id]

\* The notification of a single order (lines 815-832)
SingleOrderMsg(oid, uid, pid, phone, area, comment) ==
    [kind |-> "order",
     order_ids |-> <<oid>>,
     user_id |-> uid,
     city |-> CityNameOf(pid),
     phone |-> phone, area |-> area, comment |-> comment,
     items |-> << <<products[pid].name, 1, products[pid].price>> >>,
     total |-> products[pid].price,
     accept |-> oid, reject |-> oid]

\* The message of the fallback (lines 851-855): the text of the order, sent
\* without reply_markup, so with no accept and no reject button (0: no order)
FallbackMsg(msg) == [msg EXCEPT !.accept = 0, !.reject = 0]

\* Lines 834-855: confirm to the customer, clear the session, notify the
\* staff channel and, if that fails, each admin once
Notify(u, msg, ok) ==
    /\ Clear(u)
    /\ out' = [Out(u, "comment", "order_placed") EXCEPT
                    !.staff = msg, !.staff_ok = ok,
                    !.fallback = IF ok THEN {} ELSE ADMIN_IDS,
                    !.fallback_msg = IF ok THEN NoMsg ELSE FallbackMsg(msg)]

\* Lines 857-863
OrderFailed(u) ==
    /\ Clear(u)
    /\ out' = Out(u, "comment", "order_failed")

\* The snapshot with the prices read again from the catalog
SnapshotOf_PricesNow(data) ==
    Map1(data.cart_items,
         LAMBDA it : <<it[1], it[2], it[3],
                       IF it[1] \in DOMAIN products THEN products[it[1]].price ELSE it[4],
                       it[5]>>)

\* cart_items = data["cart_items"]
SnapshotOf(data) == data.cart_items

\* The cart path of order_comment (lines 735-787)
FinalizeCart(u, data, comment, ok) ==
    LET items == SnapshotOf(data)
        uid == data.user_id
        rows == CartOrderRows(items, uid, data.phone, data.area, comment)
    IN  /\ Len(orders) + Len(rows) <= MaxOrders
        /\ orders' = orders \o rows
        /\ cart' = SelectSeq(cart, LAMBDA r : r.user_id # uid)
        /\ entered' = [entered EXCEPT ![uid] = [p \in ProductIds |-> 0]]
        /\ adds' = [adds EXCEPT ![uid] = 0]
        /\ Notify(u, CartOrderMsg(Len(orders) + 1, Len(rows), uid, items,
                                  data.phone, data.area, comment), ok)
        /\ UNCHANGED <<catalog, users>>

\* The single-product path of order_comment (lines 789-832)
FinalizeSingle(u, data, comment, ok) ==
    LET pid == data.product_id
        uid == data.user_id
    IN  /\ Len(orders) + 1 <= MaxOrders
        /\ orders' = Append(orders, OrderRow(uid, pid, data.phone, data.area, comment))
        /\ IF pid \in DOMAIN products /\ products[pid].city_id \in DOMAIN cities
           THEN Notify(u, SingleOrderMsg(Len(orders) + 1, uid, pid,
                                         data.phone, data.area, comment), ok)
           ELSE OrderFailed(u)
        /\ UNCHANGED <<catalog, cart, users, entered, adds>>

\* The body of order_comment, run on the field bag that state.get_data() gave
order_comment_body(u, data, text, ok) ==
    IF ~(Has(data, "phone") /\ Has(data, "area") /\ Has(data, "user_id"))
    THEN OrderFailed(u) /\ UNCHANGED <<store, entered, adds>>
    ELSE IF Truthy(data, "is_cart_order")
    THEN FinalizeCart(u, data, Strip(text), ok)
    ELSE IF ~Has(data, "product_id")
    THEN OrderFailed(u) /\ UNCHANGED <<store, entered, adds>>
    ELSE FinalizeSingle(u, data, Strip(text), ok)

\* @dp.message(OrderStates.waiting_for_comment, F.text)
order_comment(u, text, ok) ==
    /\ fsm_state[u] = "waiting_for_comment"
    /\ order_comment_body(u, fsm_data[u], text, ok)
    /\ UNCHANGED inflight

\* order_comment as the task that polling makes of an update, up to its first
\* suspension (aiosqlite.connect): the state filter has matched and the
\* field bag is read
order_comment_begin(u, text, id) ==
    /\ fsm_state[u] = "waiting_for_comment"
    /\ Cardinality(inflight) < MaxFlights
    /\ \A t \in inflight : t.id # id
    /\ inflight' = inflight \cup {[id |-> id, user |-> u, text |-> text, data |-> fsm_data[u]]}
    /\ out' = Out(u, "comment", "none")
    /\ Stay
    /\ UNCHANGED <<store, entered, adds>>

\* order_comment from its first suspension to its end
order_comment_resume(t, ok) ==
    /\ t \in inflight
    /\ inflight' = inflight \ {t}
    /\ order_comment_body(t.user, t.data, t.text, ok)

-----------------------------------------------------------------------------
(* Manager: accept / reject *)

CartOrderLabel == <<"cart order">>

\* p.name of the LEFT JOIN, or the label that stands in for NULL
OrderProductName(oid) ==
    IF orders[oid].product_id \in DOMAIN products
    THEN products[orders[oid].product_id].name
    ELSE CartOrderLabel

\* accept_order / reject_order (lines 868-899, 942-973)
AskFeedback(m, oid, action, waypoint) ==
    /\ IF oid \notin 1..Len(orders)
       THEN /\ out' = Out(m, action, "order_not_found")
            /\ Stay
       ELSE /\ Move(m, waypoint,
                    [order_id |-> oid, user_id |-> orders[oid].user_id,
                     product_name |-> OrderProductName(oid), action |-> action])
            /\ out' = Out(m, action, "ask_text")
    /\ UNCHANGED <<store, hist>>

\* @dp.callback_query(F.data.startswith("order_accept:"))
accept_order(m, oid) == AskFeedback(m, oid, "accept", "waiting_for_accept_message")

\* @dp.callback_query(F.data.startswith("order_reject:"))
reject_order(m, oid) == AskFeedback(m, oid, "reject", "waiting_for_reject_reason")

\* UPDATE orders SET status=? WHERE id=?
\* UPDATE orders SET status=? for every row of the same customer
SetStatus_WholeCheckout(o, oid, status) ==
    [i \in 1..Len(o) |->
        IF oid \in 1..Len(o) /\ o[i].user_id = o[oid].user_id
        THEN [o[i] EXCEPT !.status = status] ELSE o[i]]

SetStatus(o, oid, status) ==
    [i \in 1..Len(o) |-> IF i = oid THEN [o[i] EXCEPT !.status = status] ELSE o[i]]

\* One answer to the manager, whether or not the customer was reached
FeedbackReply_Same(ok) == "customer_notified"

\* if success: ... else: ... (lines 931-934, 998-1001)
FeedbackReply(ok) == IF ok THEN "customer_notified" ELSE "customer_not_notified"

\* send_accept_feedback / send_reject_feedback (lines 901-940, 975-1007)
SendFeedback(m, text, ok, waypoint, status) ==
    /\ fsm_state[m] = waypoint
    /\ LET data == fsm_data[m]
       IN  /\ orders' = SetStatus(orders, data.order_id, status)
           /\ out' = [Out(m, status, FeedbackReply(ok)) EXCEPT
                        !.customer = [kind |-> status, to |-> data.user_id,
                                      order_id |-> data.order_id,
                                      product_name |-> data.product_name,
                                      text |-> Strip(text)]]
    /\ Clear(m)
    /\ UNCHANGED <<catalog, cart, users, hist>>

\* @dp.message(FeedbackStates.waiting_for_accept_message, F.text)
send_accept_feedback(m, text, ok) ==
    SendFeedback(m, text, ok, "waiting_for_accept_message", "accepted")

\* @dp.message(FeedbackStates.waiting_for_reject_reason, F.text)
send_reject_feedback(m, text, ok) ==
    SendFeedback(m, text, ok, "waiting_for_reject_reason", "rejected")

-----------------------------------------------------------------------------
(* Admin: cities *)

NameTexts == { Kyiv, <<"O">>, <<" ", "L">> }

\* @dp.message(Command("admin"))
admin_panel(u) ==
    /\ out' = Out(u, "/admin", IF u \notin ADMIN_IDS THEN "not_admin" ELSE "admin_panel")
    /\ Stay
    /\ UNCHANGED <<store, hist>>

\* @dp.callback_query(F.data == "adm:add_city")
add_city_start(a) ==
    /\ fsm_state' = [fsm_state EXCEPT ![a] = "AddCity.waiting_for_name"]
    /\ out' = Out(a, "adm:add_city", "ask_city_name")
    /\ UNCHANGED <<store, fsm_data, snap, hist>>

CityNames == {cities[c] : c \in DOMAIN cities}

\* Cities other than new_id that have a product (lines 616-622)
CitiesWithProducts(cs, new_id) ==
    {c \in DOMAIN cs \ {new_id} : \E p \in DOMAIN products : products[p].city_id = c}

\* A cities table without the UNIQUE constraint and without the lookup
NameTaken_Never(city) == FALSE

\* SELECT id FROM cities WHERE name=?, and the UNIQUE constraint on cities.name
NameTaken(city) == city \in CityNames

\* INSERT INTO cities and what follows it (lines 612-641)
InsertCity(a, city) ==
    LET new_city_id == city_seq + 1
    IN  /\ new_city_id <= MaxCities
        /\ cities' = (new_city_id :> city) @@ cities
        /\ city_seq' = new_city_id
        /\ IF CitiesWithProducts(cities', new_city_id) # {}
           THEN /\ Move(a, "AddCity.waiting_for_products",
                        [new_city_id |-> new_city_id, city_name |-> city])
                /\ out' = Out(a, "city_name", "city_added_ask_copy")
           ELSE /\ Clear(a)
                /\ out' = Out(a, "city_name", "city_added")
        /\ UNCHANGED <<products, product_seq, cart, orders, users, entered, adds>>

\* @dp.message(AddCity.waiting_for_name, F.text)
add_city_finish(a, text) ==
    /\ fsm_state[a] = "AddCity.waiting_for_name"
    /\ LET city == Strip(text)
       IN  IF NameTaken(city)
           THEN /\ out' = Out(a, "city_name", "city_exists")
                /\ Clear(a)
                /\ UNCHANGED <<store, entered, adds>>
           ELSE InsertCity(a, city)
    /\ UNCHANGED inflight

\* add_city_finish as a task, suspended between its SELECT, which found no
\* city of that name, and its INSERT
add_city_finish_begin(a, text, id) ==
    /\ fsm_state[a] = "AddCity.waiting_for_name"
    /\ ~NameTaken(Strip(text))
    /\ Cardinality(inflight) < MaxFlights
    /\ \A t \in inflight : t.id # id
    /\ inflight' = inflight \cup {[id |-> id, user |-> a, text |-> Strip(text), data |-> NoData]}
    /\ out' = Out(a, "city_name", "none")
    /\ Stay
    /\ UNCHANGED <<store, entered, adds>>

\* The INSERT of the suspended add_city_finish: sqlite3.IntegrityError if the
\* name was inserted meanwhile (except branch, lines 643-646)
add_city_finish_resume(t) ==
    /\ t \in inflight
    /\ inflight' = inflight \ {t}
    /\ IF NameTaken(t.text)
       THEN /\ out' = Out(t.user, "city_name", "error")
            /\ Clear(t.user)
            /\ UNCHANGED <<store, entered, adds>>
       ELSE InsertCity(t.user, t.text)

\* The ids of the products of city src, in rowid order
RECURSIVE SetToSeq(_)
SetToSeq(S) ==
    IF S = {} THEN <<>>
    ELSE LET m == CHOOSE x \in S : \A y \in S : x <= y
         IN  <<m>> \o SetToSeq(S \ {m})

ProductsOfCity(src) == SetToSeq({p \in DOMAIN products : products[p].city_id = src})

\* The rows of a run of INSERT INTO products, under the ids the counter gives
Renumber(rows, seq) ==
    LET ids == {seq + i : i \in 1..Len(rows)}
    IN  [p \in ids |-> rows[p - seq]]

\* @dp.callback_query(F.data.startswith("copy_from:"), AddCity.waiting_for_products)
copy_products_from_city(a, source_city_id) ==
    /\ fsm_state[a] = "AddCity.waiting_for_products"
    /\ LET new_city_id == fsm_data[a].new_city_id
           src == ProductsOfCity(source_city_id)
           rows == [i \in 1..Len(src) |->
                        [products[src[i]] EXCEPT !.city_id = new_city_id]]
       IN  /\ product_seq + Len(rows) <= MaxProducts
           /\ products' = Renumber(rows, product_seq) @@ products
           /\ product_seq' = product_seq + Len(rows)
           /\ out' = Out(a, "copy_from",
                         IF source_city_id \in DOMAIN cities THEN "copied" ELSE "error")
    /\ Clear(a)
    /\ UNCHANGED <<cities, city_seq, cart, orders, users, hist>>

\* @dp.callback_query(F.data == "no_copy_products", AddCity.waiting_for_products)
no_copy_products(a) ==
    /\ fsm_state[a] = "AddCity.waiting_for_products"
    /\ out' = Out(a, "no_copy_products", "city_created")
    /\ Clear(a)
    /\ UNCHANGED <<store, hist>>

\* @dp.callback_query(F.data.startswith("edit_city:"))
edit_city_choose(a, city_id) ==
    /\ Move(a, "EditCity.waiting_for_new_name", [city_id |-> city_id])
    /\ out' = Out(a, "edit_city", "ask_new_name")
    /\ UNCHANGED <<store, hist>>

\* @dp.message(EditCity.waiting_for_new_name, F.text)
\* UPDATE cities SET name=? WHERE id=? fails on the UNIQUE constraint
edit_city_finish(a, text) ==
    /\ fsm_state[a] = "EditCity.waiting_for_new_name"
    /\ LET new_name == Strip(text)
           city_id == fsm_data[a].city_id
       IN  IF /\ city_id \in DOMAIN cities
              /\ cities[city_id] # new_name
              /\ NameTaken(new_name)
           THEN /\ out' = Out(a, "new_city_name", "error")
                /\ UNCHANGED cities
           ELSE /\ out' = Out(a, "new_city_name", "city_updated")
                /\ cities' = [c \in DOMAIN cities |->
                                IF c = city_id THEN new_name ELSE cities[c]]
    /\ Clear(a)
    /\ UNCHANGED <<city_seq, products, product_seq, cart, orders, users, hist>>

\* A delete that also drops the cart lines of the deleted products
delete_city_Cascade(a, city_id) ==
    /\ cities' = [c \in DOMAIN cities \ {city_id} |-> cities[c]]
    /\ products' = [p \in {q \in DOMAIN products : products[q].city_id # city_id}
                        |-> products[p]]
    /\ cart' = SelectSeq(cart, LAMBDA r : r.product_id \in DOMAIN products')
    /\ out' = Out(a, "delete_city", "city_deleted")
    /\ Stay
    /\ UNCHANGED <<city_seq, product_seq, orders, users, hist>>

\* @dp.callback_query(F.data.startswith("delete_city:"))
delete_city(a, city_id) ==
    /\ cities' = [c \in DOMAIN cities \ {city_id} |-> cities[c]]
    /\ products' = [p \in {q \in DOMAIN products : products[q].city_id # city_id}
                        |-> products[p]]
    /\ out' = Out(a, "delete_city", "city_deleted")
    /\ Stay
    /\ UNCHANGED <<city_seq, product_seq, cart, orders, users, hist>>

-----------------------------------------------------------------------------
(* Admin: products *)

PriceTexts == { <<"5", "0">>, <<"x">> }
Fields == {"name", "description", "price"}

\* float("nan") is the value that SQLite stores as NULL: here a number below
\* every price that a text of digits denotes
NaN == 0 - 1000000
IsNaN(s) == Strip(s) = <<"n", "a", "n">>

\* float(text) raises ValueError unless the text is a number or the word nan
\* (of the texts float() takes, the model has the whole numbers and nan)
IsFloat(s) == IsInt(s) \/ IsNaN(s)
FloatOf(s) == IF IsNaN(s) THEN NaN ELSE IntOf(s)

\* A button that only selects
Toggle_AddOnly(S, x) == S \cup {x}

\* The set a toggle button leaves (lines 1123-1126, 1365-1368)
Toggle(S, x) == IF x \in S THEN S \ {x} ELSE S \cup {x}

\* @dp.callback_query(F.data == "adm:add_product")
add_product_start(a) ==
    /\ IF DOMAIN cities = {}
       THEN /\ out' = Out(a, "adm:add_product", "no_cities")
            /\ Stay
       ELSE /\ Move(a, "AddProduct.cities", [selected_cities |-> {}])
            /\ out' = Out(a, "adm:add_product", "ask_cities")
    /\ UNCHANGED <<store, hist>>

\* @dp.callback_query(F.data.startswith("city_select:"), AddProduct.cities)
toggle_city_selection(a, city_id) ==
    /\ fsm_state[a] = "AddProduct.cities"
    /\ fsm_data' = [fsm_data EXCEPT ![a] =
            update_data(@, [selected_cities |->
                Toggle(IF Has(@, "selected_cities") THEN @.selected_cities ELSE {},
                       city_id)])]
    /\ out' = Out(a, "city_select", "toggled")
    /\ UNCHANGED <<store, fsm_state, snap, hist>>

\* @dp.callback_query(F.data == "cities_confirmed", AddProduct.cities)
confirm_cities_selection(a) ==
    /\ fsm_state[a] = "AddProduct.cities"
    /\ IF ~Has(fsm_data[a], "selected_cities") \/ fsm_data[a].selected_cities = {}
       THEN /\ out' = Out(a, "cities_confirmed", "choose_a_city")
            /\ UNCHANGED fsm_state
       ELSE /\ out' = Out(a, "cities_confirmed", "ask_photo")
            /\ fsm_state' = [fsm_state EXCEPT ![a] = "AddProduct.photo"]
    /\ UNCHANGED <<store, fsm_data, snap, hist>>

\* @dp.message(AddProduct.photo, F.photo)
add_product_photo(a) ==
    /\ fsm_state[a] = "AddProduct.photo"
    /\ Move(a, "AddProduct.name", [photo |-> "file_id"])
    /\ out' = Out(a, "photo", "ask_name")
    /\ UNCHANGED <<store, hist>>

\* @dp.message(AddProduct.name, F.text)
add_product_name(a, text) ==
    /\ fsm_state[a] = "AddProduct.name"
    /\ Move(a, "AddProduct.description", [name |-> Strip(text)])
    /\ out' = Out(a, "name", "ask_description")
    /\ UNCHANGED <<store, hist>>

\* @dp.message(AddProduct.description, F.text)
add_product_desc(a, text) ==
    /\ fsm_state[a] = "AddProduct.description"
    /\ Move(a, "AddProduct.price", [description |-> Strip(text)])
    /\ out' = Out(a, "description", "ask_price")
    /\ UNCHANGED <<store, hist>>

\* @dp.message(AddProduct.price, F.text)
add_product_price(a, text) ==
    /\ fsm_state[a] = "AddProduct.price"
    /\ IF ~IsFloat(text)
       THEN /\ out' = Out(a, "price", "bad_price")
            /\ Stay /\ UNCHANGED <<products, product_seq>>
       ELSE LET data == fsm_data[a]
                targets == SetToSeq(data.selected_cities \cap DOMAIN cities)
                rows == [i \in 1..Len(targets) |->
                            [city_id |-> targets[i], name |-> data.name,
                             description |-> data.description,
                             price |-> FloatOf(text)]]
            IN  /\ product_seq + Len(rows) <= MaxProducts
                /\ products' = Renumber(rows, product_seq) @@ products
                /\ product_seq' = product_seq + Len(rows)
                /\ out' = Out(a, "price", "product_added")
                /\ Clear(a)
    /\ UNCHANGED <<cities, city_seq, cart, orders, users, hist>>

\* @dp.callback_query(F.data.startswith("edit_product_name:"))
edit_product_choose(a, product_name) ==
    /\ Move(a, "EditProduct.waiting_for_field", [product_name |-> product_name])
    /\ out' = Out(a, "edit_product_name", "ask_field")
    /\ UNCHANGED <<store, hist>>

\* @dp.callback_query(F.data.startswith("field:"), EditProduct.waiting_for_field)
edit_product_field(a, field) ==
    /\ fsm_state[a] = "EditProduct.waiting_for_field"
    /\ Move(a, "EditProduct.waiting_for_value", [field |-> field])
    /\ out' = Out(a, "field", "ask_value")
    /\ UNCHANGED <<store, hist>>

\* An update of the first product of that name only
SetField_FirstOnly(ps, product_name, field, value) ==
    [p \in DOMAIN ps |->
        IF ps[p].name = product_name /\ \A q \in DOMAIN ps : ps[q].name = product_name => p <= q
        THEN [ps[p] EXCEPT ![field] = value] ELSE ps[p]]

\* UPDATE products SET {field}=? WHERE name=?
SetField(ps, product_name, field, value) ==
    [p \in DOMAIN ps |->
        IF ps[p].name = product_name THEN [ps[p] EXCEPT ![field] = value] ELSE ps[p]]

\* @dp.message(EditProduct.waiting_for_value, F.text)
edit_product_value(a, text) ==
    /\ fsm_state[a] = "EditProduct.waiting_for_value"
    /\ LET data == fsm_data[a]
       IN  IF data.field = "price" /\ ~IsFloat(Strip(text))
           THEN /\ out' = Out(a, "value", "bad_price")
                /\ Stay /\ UNCHANGED products
           ELSE /\ products' = SetField(products, data.product_name, data.field,
                                        IF data.field = "price" THEN FloatOf(Strip(text))
                                        ELSE Strip(text))
                /\ out' = Out(a, "value", "product_updated")
                /\ Clear(a)
    /\ UNCHANGED <<cities, city_seq, product_seq, cart, orders, users, hist>>

\* @dp.callback_query(F.data.startswith("del_product_name:"))
delete_product_show_cities(a, product_name) ==
    /\ IF \E p \in DOMAIN products :
              products[p].name = product_name /\ products[p].city_id \in DOMAIN cities
       THEN /\ Move(a, "DeleteProduct.waiting_for_cities",
                    [product_name |-> product_name, selected_for_deletion |-> {}])
            /\ out' = Out(a, "del_product_name", "ask_cities")
       ELSE /\ out' = Out(a, "del_product_name", "product_not_found")
            /\ Stay
    /\ UNCHANGED <<store, hist>>

\* @dp.callback_query(F.data.startswith("del_city_select:"), DeleteProduct.waiting_for_cities)
toggle_city_for_deletion(a, city_id) ==
    /\ fsm_state[a] = "DeleteProduct.waiting_for_cities"
    /\ fsm_data' = [fsm_data EXCEPT ![a] =
            update_data(@, [selected_for_deletion |->
                Toggle(IF Has(@, "selected_for_deletion") THEN @.selected_for_deletion
                       ELSE {}, city_id)])]
    /\ out' = Out(a, "del_city_select", "toggled")
    /\ UNCHANGED <<store, fsm_state, snap, hist>>

\* @dp.callback_query(F.data == "confirm_deletion", DeleteProduct.waiting_for_cities)
confirm_partial_deletion(a) ==
    /\ fsm_state[a] = "DeleteProduct.waiting_for_cities"
    /\ LET data == fsm_data[a]
           selected == IF Has(data, "selected_for_deletion")
                       THEN data.selected_for_deletion ELSE {}
       IN  IF selected = {}
           THEN /\ out' = Out(a, "confirm_deletion", "choose_a_city")
                /\ Stay /\ UNCHANGED products
           ELSE /\ products' =
                    [p \in {q \in DOMAIN products :
                                ~(products[q].name = data.product_name
                                  /\ products[q].city_id \in selected)}
                        |-> products[p]]
                /\ out' = Out(a, "confirm_deletion", "product_deleted")
                /\ Clear(a)
    /\ UNCHANGED <<cities, city_seq, product_seq, cart, orders, users, hist>>

\* @dp.callback_query(F.data == "delete_all_cities", DeleteProduct.waiting_for_cities)
delete_from_all_cities(a) ==
    /\ fsm_state[a] = "DeleteProduct.waiting_for_cities"
    /\ products' = [p \in {q \in DOMAIN products :
                                products[q].name # fsm_data[a].product_name}
                        |-> products[p]]
    /\ out' = Out(a, "delete_all_cities", "product_deleted")
    /\ Clear(a)
    /\ UNCHANGED <<cities, city_seq, product_seq, cart, orders, users, hist>>

-----------------------------------------------------------------------------
(* Dispatcher: the filters of the handler registrations *)

\* An update that resets the session when no handler takes it
unhandled_Resets(u, ev) ==
    /\ out' = Out(u, ev, "none")
    /\ Clear(u)
    /\ UNCHANGED <<store, hist>>

\* An update that matches the filters of no registered handler is dropped:
\* nothing runs and nothing is sent
unhandled(u, ev) ==
    /\ out' = Out(u, ev, "none")
    /\ Stay
    /\ UNCHANGED <<store, hist>>

\* F.data.startswith("city_select:"), AddProduct.cities
cb_city_select(u, city_id) ==
    IF fsm_state[u] = "AddProduct.cities"
    THEN toggle_city_selection(u, city_id) ELSE unhandled(u, "city_select")

\* F.data == "cities_confirmed", AddProduct.cities
cb_cities_confirmed(u) ==
    IF fsm_state[u] = "AddProduct.cities"
    THEN confirm_cities_selection(u) ELSE unhandled(u, "cities_confirmed")

\* F.data.startswith("copy_from:"), AddCity.waiting_for_products
cb_copy_from(u, city_id) ==
    IF fsm_state[u] = "AddCity.waiting_for_products"
    THEN copy_products_from_city(u, city_id) ELSE unhandled(u, "copy_from")

\* F.data == "no_copy_products", AddCity.waiting_for_products
cb_no_copy_products(u) ==
    IF fsm_state[u] = "AddCity.waiting_for_products"
    THEN no_copy_products(u) ELSE unhandled(u, "no_copy_products")

\* F.data.startswith("field:"), EditProduct.waiting_for_field
cb_field(u, field) ==
    IF fsm_state[u] = "EditProduct.waiting_for_field"
    THEN edit_product_field(u, field) ELSE unhandled(u, "field")

\* F.data.startswith("del_city_select:"), DeleteProduct.waiting_for_cities
cb_del_city_select(u, city_id) ==
    IF fsm_state[u] = "DeleteProduct.waiting_for_cities"
    THEN toggle_city_for_deletion(u, city_id) ELSE unhandled(u, "del_city_select")

\* F.data == "confirm_deletion", DeleteProduct.waiting_for_cities
cb_confirm_deletion(u) ==
    IF fsm_state[u] = "DeleteProduct.waiting_for_cities"
    THEN confirm_partial_deletion(u) ELSE unhandled(u, "confirm_deletion")

\* F.data == "delete_all_cities", DeleteProduct.waiting_for_cities
cb_delete_all_cities(u) ==
    IF fsm_state[u] = "DeleteProduct.waiting_for_cities"
    THEN delete_from_all_cities(u) ELSE unhandled(u, "delete_all_cities")

\* @dp.error(): an exception that a handler did not catch is logged; nothing
\* is sent, and the handler had written nothing
error_handler(u, ev) ==
    /\ out' = Out(u, ev, "none")
    /\ Stay
    /\ UNCHANGED <<store, hist>>

\* F.data.startswith("edit_city:"): int() of the token's id is outside any try
cb_edit_city(u, city_id, wellformed) ==
    IF wellformed THEN edit_city_choose(u, city_id) ELSE error_handler(u, "edit_city")

\* Every text would be taken as the area of an order
on_text_Unfiltered(u, text, ok) ==
    /\ Move(u, "waiting_for_comment", [area |-> Strip(text)])
    /\ out' = Out(u, "area", "ask_comment")
    /\ UNCHANGED <<store, hist>>

\* A text message goes to the handler whose state filter is the waypoint of
\* the sender; every @dp.message(..., F.text) registration has such a filter
on_text(u, text, ok) ==
    CASE fsm_state[u] = "waiting_for_quantity" -> add_to_cart_with_quantity(u, text)
      [] fsm_state[u] = "waiting_for_phone" -> order_phone(u, text)
      [] fsm_state[u] = "waiting_for_area" -> order_area(u, text)
      [] fsm_state[u] = "waiting_for_comment" -> order_comment(u, text, ok)
      [] fsm_state[u] = "waiting_for_accept_message" -> send_accept_feedback(u, text, ok)
      [] fsm_state[u] = "waiting_for_reject_reason" -> send_reject_feedback(u, text, ok)
      [] fsm_state[u] = "AddCity.waiting_for_name" -> add_city_finish(u, text)
      [] fsm_state[u] = "EditCity.waiting_for_new_name" -> edit_city_finish(u, text)
      [] fsm_state[u] = "AddProduct.name" -> add_product_name(u, text)
      [] fsm_state[u] = "AddProduct.description" -> add_product_desc(u, text)
      [] fsm_state[u] = "AddProduct.price" -> add_product_price(u, text)
      [] fsm_state[u] = "EditProduct.waiting_for_value" -> edit_product_value(u, text)
      [] OTHER -> unhandled(u, "text")

-----------------------------------------------------------------------------
(* Events *)

\* The cart buttons of a customer and the quantity text that follows them
Carting(u, pids, qtys) ==
    \/ \E pid \in pids : add_to_cart(u, pid)
    \/ \E text \in qtys : add_to_cart_with_quantity(u, text)
    \/ clear_cart(u)

\* The order flow of a customer, entered from the cart or from a buy button
Ordering(u, pids) ==
    \/ cart_checkout(u)
    \/ \E pid \in pids : buy_product(u, pid)
    \/ \E text \in PhoneTexts : order_phone(u, text)
    \/ \E text \in AreaTexts : order_area(u, text)
    \/ \E text \in CommentTexts, ok \in BOOLEAN : order_comment(u, text, ok)

-----------------------------------------------------------------------------
(* Carts: two customers fill and clear their carts *)

NextCart == \E u \in Customers : Carting(u, ProductIds, QtyTexts)

SpecCart == Init /\ [][NextCart]_vars

\* A quantity text the handler must turn down
Rejected(text) == ~IsInt(text) \/ IntOf(text) < 1 \/ IntOf(text) > 10

\* C3: in waiting_for_quantity, a text that is not an integer, or is an
\* integer outside 1..10, leaves the cart table, the waypoint and the field
\* bag as they were, and the user gets a re-prompt.
C3_BadQuantityChangesNothing ==
    [][\A u \in Users, text \in QtyTexts :
          (/\ fsm_state[u] = "waiting_for_quantity"
           /\ out'.user = u /\ out'.event = "quantity"
           /\ Rejected(text)
           /\ add_to_cart_with_quantity(u, text)) =>
              /\ cart' = cart
              /\ fsm_state'[u] = "waiting_for_quantity"
              /\ fsm_state' = fsm_state
              /\ fsm_data' = fsm_data
              /\ out'.reply \in {"reprompt_number", "reprompt_range"}]_vars

\* A re-prompt has been sent to a user who has a line in the cart and is
\* still asked for a quantity
C3_Witness ==
    /\ out.event = "quantity"
    /\ out.reply \in {"reprompt_number", "reprompt_range"}
    /\ fsm_state[out.user] = "waiting_for_quantity"
    /\ UserLines(out.user) # <<>>

\* C4: in waiting_for_quantity with pending product p, a valid quantity q
\* adds q to the user's line for p when there is one (also beyond 10, the
\* number of lines unchanged) and otherwise inserts the one line (user, p, q);
\* no other line changes and the waypoint becomes idle.  Hence every line's
\* quantity is at least 1 and is the sum of the valid quantities entered for
\* its (user, product) since the user's cart was last emptied.
C4_QuantityAccumulates ==
    /\ [](\A i \in 1..Len(cart) :
            /\ cart[i].quantity >= 1
            /\ cart[i].quantity = entered[cart[i].user_id][cart[i].product_id])
    /\ [][\A u \in Users, text \in QtyTexts :
            (/\ fsm_state[u] = "waiting_for_quantity"
             /\ out'.user = u /\ out'.event = "quantity"
             /\ ~Rejected(text)
             /\ add_to_cart_with_quantity(u, text)) =>
                LET p == fsm_data[u].product_id
                    q == IntOf(text)
                IN  /\ fsm_state'[u] = "idle"
                    /\ IF LinesOf(cart, u, p) # {}
                       THEN /\ Len(cart') = Len(cart)
                            /\ \A i \in 1..Len(cart) :
                                 cart'[i] = IF i \in LinesOf(cart, u, p)
                                            THEN [cart[i] EXCEPT !.quantity = @ + q]
                                            ELSE cart[i]
                       ELSE cart' = Append(cart, [user_id |-> u, product_id |-> p,
                                                  quantity |-> q])]_vars

\* A line has grown beyond 10 by a second entry, next to another line
C4_Witness ==
    /\ out.event = "quantity" /\ out.reply = "added"
    /\ Len(cart) >= 2
    /\ \E i \in 1..Len(cart) : cart[i].user_id = out.user /\ cart[i].quantity > 10

\* C5: there is at most one cart line for each (user, product), whatever
\* add-to-cart flows the users run, each user's events handled one at a time
\* and the users' events interleaved.
C5_OneLinePerProduct ==
    \A u \in Users, pid \in ProductIds : Cardinality(LinesOf(cart, u, pid)) <= 1

\* Both customers hold a line of the same product, one of them after
\* entering a quantity for it twice
C5_Witness ==
    /\ Len(cart) = 2
    /\ cart[1].product_id = cart[2].product_id
    /\ cart[1].user_id # cart[2].user_id
    /\ \E i \in 1..2 : adds[cart[i].user_id] = 2

\* C14: whenever a handler of the cart and order flows ends through its
\* exception path, the user's session is cleared: the waypoint is idle and
\* the field bag is empty afterwards.
C14_ExceptionClearsSession ==
    [][\A u \in Users :
          (/\ out'.user = u
           /\ out'.event \in {"add_to_cart", "quantity", "cart_checkout", "phone",
                              "area", "comment", "accept", "reject"}
           /\ out'.reply \in {"error", "order_failed"}) =>
              fsm_state'[u] = "idle" /\ fsm_data'[u] = NoData]_vars

-----------------------------------------------------------------------------
(* Cities: a customer fills a cart while an admin adds and deletes cities *)

NextCity ==
    \/ Carting("u1", ProductIds, {<<"1">>, <<"a">>})
    \/ add_city_start("a1")
    \/ \E text \in NameTexts : add_city_finish("a1", text)
    \/ \E c \in CityIds : copy_products_from_city("a1", c)
    \/ no_copy_products("a1")
    \/ \E c \in CityIds : delete_city("a1", c)

SpecCity == Init /\ [][NextCity]_vars

\* The cities of the products, still in the catalog, that the user's cart lines name
CartCityIds(u) ==
    {products[pid].city_id : pid \in {r.product_id : r \in
        {cart[i] : i \in {j \in 1..Len(cart) : cart[j].user_id = u}}} \cap DOMAIN products}

\* C1: for every user, the cart lines whose product still exists reference
\* products of at most one city, whatever the customers and the admins do.
C1_OneCityPerCart == \A u \in Users : Cardinality(CartCityIds(u)) <= 1

\* C2: add_to_cart of a product by a user whose cart holds a product of
\* another city is refused: the cart, the user's waypoint and field bag stay
\* as they were, and the user is told about the conflict.
C2_OtherCityRefused ==
    [][\A u \in Users, pid \in ProductIds :
          (/\ pid \in DOMAIN products
           /\ CartCityIds(u) \ {products[pid].city_id} # {}
           /\ add_to_cart(u, pid)) =>
              /\ cart' = cart
              /\ fsm_state' = fsm_state
              /\ fsm_data' = fsm_data
              /\ out'.reply = "city_conflict"]_vars

-----------------------------------------------------------------------------
(* Orders: a customer orders from a filled cart while an admin edits the catalog *)

\* The carts the store holds when the run starts
InitOrder ==
    StartWith(<< [user_id |-> "u1", product_id |-> 1, quantity |-> 2],
                 [user_id |-> "u2", product_id |-> 2, quantity |-> 1],
                 [user_id |-> "u1", product_id |-> 3, quantity |-> 1] >>)

\* An admin changes the price of a product, or deletes it
Repricing(a, names) ==
    \/ \E n \in names : edit_product_choose(a, n)
    \/ edit_product_field(a, "price")
    \/ \E text \in PriceTexts : edit_product_value(a, text)
    \/ \E n \in names : delete_product_show_cities(a, n)
    \/ delete_from_all_cities(a)

NextOrder ==
    \/ Carting("u1", {3}, {<<"1">>})
    \/ Ordering("u1", {1})
    \/ Repricing("a1", {Rose})

SpecOrder == InitOrder /\ [][NextOrder]_vars

\* The comment text that finalizes a cart checkout of u
CartFinalization(u, text, ok) ==
    /\ fsm_state[u] = "waiting_for_comment"
    /\ Truthy(fsm_data[u], "is_cart_order")
    /\ order_comment(u, text, ok)

\* The quantities of the snapshot items of product pid
QuantitiesOf(items, pid) ==
    Map1(SelectSeq(items, LAMBDA it : it[1] = pid), LAMBDA it : it[2])

\* C6: finalizing a cart checkout inserts as many order rows as the sum of
\* the snapshot quantities, each for that user and pending, quantity_i of them
\* for product i; it leaves no cart line of that user and leaves the other
\* users' cart lines as they were.
C6_OneRowPerUnit ==
    [][\A u \in Users, text \in CommentTexts, ok \in BOOLEAN :
          CartFinalization(u, text, ok) =>
              LET items == snap[u].items
                  new == SubSeq(orders', Len(orders) + 1, Len(orders'))
              IN  /\ SubSeq(orders', 1, Len(orders)) = orders
                  /\ Len(new) = SumSeq(Map1(items, LAMBDA it : it[2]))
                  /\ \A i \in 1..Len(new) :
                        new[i].user_id = u /\ new[i].status = "pending"
                  /\ \A pid \in ProductIds :
                        Cardinality({i \in 1..Len(new) : new[i].product_id = pid})
                            = SumSeq(QuantitiesOf(items, pid))
                  /\ SelectSeq(cart', LAMBDA r : r.user_id = u) = <<>>
                  /\ SelectSeq(cart', LAMBDA r : r.user_id # u)
                        = SelectSeq(cart, LAMBDA r : r.user_id # u)]_vars

\* A cart of two lines, one of quantity 2, has become three orders, and the
\* other customer's line is still in the cart
C6_Witness ==
    /\ out.event = "comment" /\ out.staff.kind = "cart_order"
    /\ Len(out.staff.items) = 2
    /\ Len(orders) = 3
    /\ UserLines(out.user) = <<>>
    /\ UserLines("u2") # <<>>

\* C7: a user who enters the order flow through buy:<pid> and completes
\* phone, area and comment gets exactly one order row, for product pid, and
\* the cart is not modified, whatever flows the user started and abandoned
\* before pressing buy.
C7_BuyMakesOneOrder ==
    [][\A u \in Users, text \in CommentTexts, ok \in BOOLEAN :
          (/\ fsm_state[u] = "waiting_for_comment"
           /\ snap[u].flow = "buy"
           /\ order_comment(u, text, ok)) =>
              /\ Len(orders') = Len(orders) + 1
              /\ SubSeq(orders', 1, Len(orders)) = orders
              /\ orders'[Len(orders')].product_id = snap[u].product_id
              /\ cart' = cart]_vars

\* C8: the items, quantities, prices and total of a finalized cart order
\* are those of the snapshot taken when cart_checkout was pressed, the total
\* being the sum of price_i * quantity_i over the snapshot, even if the cart
\* was cleared, a price edited or a product deleted in between.
C8_SnapshotIsUsed ==
    [][\A u \in Users, text \in CommentTexts, ok \in BOOLEAN :
          CartFinalization(u, text, ok) =>
              LET items == snap[u].items
              IN  /\ out'.staff.kind = "cart_order"
                  /\ out'.staff.items
                        = Map1(items, LAMBDA it : <<it[3], it[2], it[4] * it[2]>>)
                  /\ out'.staff.total
                        = SumSeq(Map1(items, LAMBDA it : it[4] * it[2]))
                  /\ Len(orders') - Len(orders)
                        = SumSeq(Map1(items, LAMBDA it : it[2]))]_vars

\* A cart order went out with a line of roses whose amount is no longer what
\* the catalog gives: the rose was repriced or deleted after cart_checkout
C8_Witness ==
    /\ out.event = "comment" /\ out.staff.kind = "cart_order"
    /\ \E i \in 1..Len(out.staff.items) :
          /\ out.staff.items[i][1] = Rose
          /\ \/ 1 \notin DOMAIN products
             \/ products[1].price * out.staff.items[i][2] # out.staff.items[i][3]

\* C13: when an order is finalized, one send to the staff channel is
\* attempted; if it succeeds no admin is written to, if it fails one send goes
\* to each identity of the admin allow-list and nothing is retried; either way
\* the handler completes, the order rows stay and the customer's session is
\* idle.
C13_StaffNotifiedOnce ==
    [][\A u \in Users :
          (/\ fsm_state[u] = "waiting_for_comment"
           /\ out'.user = u /\ out'.event = "comment"
           /\ Len(orders') > Len(orders)) =>
              /\ out'.staff.kind # "none"
              /\ out'.staff_ok => out'.fallback = {}
              /\ ~out'.staff_ok => out'.fallback = ADMIN_IDS
              /\ SubSeq(orders', 1, Len(orders)) = orders
              /\ fsm_state'[u] = "idle" /\ fsm_data'[u] = NoData]_vars

\* C30: cart_clear by a user deletes every cart line of that user and no
\* line of another user, and leaves the orders, the catalog and the user's
\* waypoint and field bag, a checkout snapshot included, as they were.
C30_ClearCartFrame ==
    [][\A u \in Users :
          (out'.user = u /\ out'.event = "cart_clear") =>
              /\ cart' = SelectSeq(cart, LAMBDA r : r.user_id # u)
              /\ UNCHANGED <<orders, cities, products, fsm_state, fsm_data>>]_vars

\* A customer cleared the cart between checkout and comment: the snapshot is
\* still in the session and the line of the other customer is still in the cart
C30_Witness ==
    /\ out.event = "cart_clear" /\ out.user = "u1"
    /\ fsm_state["u1"] = "waiting_for_comment"
    /\ Truthy(fsm_data["u1"], "is_cart_order")
    /\ Len(fsm_data["u1"].cart_items) = 2
    /\ UserLines("u1") = <<>>
    /\ UserLines("u2") # <<>>

C33_FallbackActionable ==
    out.fallback # {} =>
        /\ out.fallback_msg = out.staff
        /\ out.fallback_msg.accept \in OrderIds
        /\ out.fallback_msg.reject \in OrderIds

\* C28: the comment of an order flow that a buy button started for a product
\* that was no longer in the catalog creates no order row and no cart line,
\* and the user is told of the failure.
C28_GoneProductNotOrdered ==
    [][\A u \in Customers :
          (/\ fsm_state[u] = "waiting_for_comment"
           /\ out'.user = u /\ out'.event = "comment"
           /\ Has(fsm_data[u], "product_id")
           /\ ~Truthy(fsm_data[u], "is_cart_order")
           /\ snap[u].flow = "buy" /\ snap[u].gone
           /\ fsm_data[u].product_id \notin DOMAIN products) =>
              /\ orders' = orders
              /\ cart' = cart
              /\ out'.reply = "order_failed"]_vars

-----------------------------------------------------------------------------
(* Cart view: customers look at their carts while an admin edits the catalog *)

NextView ==
    \/ Carting("u1", {3}, {<<"1">>})
    \/ \E u \in Customers : show_cart(u)
    \/ Repricing("a1", {Rose})

SpecView == InitOrder /\ [][NextView]_vars

\* The cart lines of u, by position, whose product and city are in the catalog
Displayable(u) ==
    {i \in 1..Len(cart) :
        /\ cart[i].user_id = u
        /\ cart[i].product_id \in DOMAIN products
        /\ products[cart[i].product_id].city_id \in DOMAIN cities}

\* ShowCart is read-only; it renders the empty-cart call to action for a cart
\* with no displayable line, and otherwise `shown` lines, the total of
\* price * quantity over the displayable lines and the city of one of them
ShowCartRenders(u, shown) ==
    /\ UNCHANGED <<store, fsm_state, fsm_data>>
    /\ IF Displayable(u) = {}
       THEN out'.reply = "cart_empty" /\ out'.view = NoMsg
       ELSE /\ out'.reply = "cart"
            /\ Len(out'.view.items) = shown
            /\ out'.view.total =
                  SumOver([i \in Displayable(u) |->
                              products[cart[i].product_id].price * cart[i].quantity],
                          Displayable(u))
            /\ \E i \in Displayable(u) :
                  out'.view.city = cities[products[cart[i].product_id].city_id]

\* C16: ShowCart changes neither the store nor the session; for a cart with
\* no displayable line it renders the empty-cart call to action, otherwise
\* one line per cart line of the user and the total of price * quantity,
\* tagged with the city of one of the lines.
C16_OneLinePerCartLine ==
    [][\A u \in Users :
          (out'.user = u /\ out'.event = "main_cart") =>
              ShowCartRenders(u, Len(UserLines(u)))]_vars

\* C16, amended: the lines rendered and summed are the displayable ones, the
\* cart lines whose product and city are still in the catalog; a line left
\* dangling by a deletion is not rendered.
C16_OneLinePerDisplayableLine ==
    [][\A u \in Users :
          (out'.user = u /\ out'.event = "main_cart") =>
              ShowCartRenders(u, Cardinality(Displayable(u)))]_vars

\* A cart of two lines, one of them dangling, is shown as one line
C16_Witness ==
    /\ out.event = "main_cart" /\ out.reply = "cart"
    /\ Len(UserLines(out.user)) = 2
    /\ Len(out.view.items) = 1
    /\ out.view.total = out.view.items[1][4]

-----------------------------------------------------------------------------
(* Staff: orders are placed, and accepted or rejected *)

\* The accept / reject buttons and the texts that follow them
Managing(m, oids) ==
    \/ \E oid \in oids : accept_order(m, oid)
    \/ \E oid \in oids : reject_order(m, oid)
    \/ \E text \in FeedbackTexts, ok \in BOOLEAN : send_accept_feedback(m, text, ok)
    \/ \E text \in FeedbackTexts, ok \in BOOLEAN : send_reject_feedback(m, text, ok)

\* The order buttons that are pressed: of the first two orders
PressedOrderIds == 1..2

NextStaff ==
    \/ Ordering("u2", {1})
    \/ \E m \in {"a1", "a2", "u1"} : Managing(m, PressedOrderIds)

SpecStaff == Init /\ [][NextStaff]_vars

\* C9: once an order's status is accepted or rejected, no later accept or
\* reject action on the same order id, by the same or another manager and in
\* any interleaving of button presses and text replies, changes it again.
C9_StatusIsTerminal ==
    [][\A oid \in 1..Len(orders) :
          orders[oid].status \in {"accepted", "rejected"} =>
              orders'[oid].status = orders[oid].status]_vars

\* C10: accepting and rejecting are manager-only: no event sent by an
\* identity that is not an admin changes the status of any order.
C10_OnlyManagersDecide ==
    [][\A oid \in 1..Len(orders) :
          orders'[oid].status # orders[oid].status => out'.user \in ADMIN_IDS]_vars

\* C11: on an accept (reject) action the status is set first and the manager
\* is prompted afterwards: whenever a manager is at waiting_for_accept_message
\* (waiting_for_reject_reason) for an order, that order is already accepted
\* (rejected).
C11_StatusSetBeforePrompt ==
    \A m \in Users :
        /\ fsm_state[m] = "waiting_for_accept_message" =>
              orders[fsm_data[m].order_id].status = "accepted"
        /\ fsm_state[m] = "waiting_for_reject_reason" =>
              orders[fsm_data[m].order_id].status = "rejected"

\* The manager's text is processed and the send to the customer fails
FeedbackUndelivered(m, text) ==
    /\ fsm_state[m] \in {"waiting_for_accept_message", "waiting_for_reject_reason"}
    /\ out'.user = m
    /\ \/ send_accept_feedback(m, text, FALSE)
       \/ send_reject_feedback(m, text, FALSE)

\* C12: when the manager's accept message or reject reason is processed and
\* the send to the customer fails, the order keeps its new status, the
\* manager gets an answer that differs from the one of a delivery and the
\* manager's session becomes idle.
C12_StatusKeptWhenUndelivered ==
    [][\A m \in Users, text \in FeedbackTexts :
          FeedbackUndelivered(m, text) =>
              /\ orders'[fsm_data[m].order_id].status =
                    IF fsm_state[m] = "waiting_for_accept_message"
                    THEN "accepted" ELSE "rejected"
              /\ out'.reply = "customer_not_notified"
              /\ out'.reply # "customer_notified"
              /\ fsm_state'[m] = "idle"
              /\ fsm_data'[m] = NoData]_vars

\* A manager was told that the customer could not be reached, the order has
\* its new status and the manager is idle
C12_Witness ==
    /\ out.reply = "customer_not_notified"
    /\ orders[out.customer.order_id].status = out.customer.kind
    /\ out.customer.kind \in {"accepted", "rejected"}
    /\ fsm_state[out.user] = "idle"

-----------------------------------------------------------------------------
(* Phones: a customer answers the phone prompt of the order flow *)

Nine == <<"1", "2", "3", "4", "5", "6", "7", "8", "9">>

PhoneCases ==
    { <<"0">> \o Nine,
      <<" ", "0">> \o Nine \o <<" ">>,
      <<"+", "3", "8", "0">> \o Nine,
      <<" ", "+", "3", "8", "0">> \o Nine,
      <<"0">> \o SubSeq(Nine, 1, 8),
      <<"0">> \o Nine \o <<"0">>,
      <<"1">> \o Nine,
      <<"0">> \o SubSeq(Nine, 1, 8) \o <<"a">>,
      <<"0", " ">> \o SubSeq(Nine, 1, 8),
      <<"+", "3", "8", "0">> \o SubSeq(Nine, 1, 8),
      <<"+", "3", "8", "0">> \o Nine \o <<"0">>,
      <<"3", "8", "0">> \o Nine,
      <<"+", "3", "8", "1">> \o Nine,
      <<"+">> \o Nine,
      <<>> }

NextPhone ==
    \/ cart_checkout("u1")
    \/ buy_product("u1", 1)
    \/ \E text \in PhoneCases : order_phone("u1", text)
    \/ \E text \in AreaTexts : order_area("u1", text)
    \/ \E text \in CommentTexts, ok \in BOOLEAN : order_comment("u1", text, ok)

SpecPhone == InitOrder /\ [][NextPhone]_vars

\* '0' followed by exactly 9 digits, or '+380' followed by exactly 9 digits
PhoneShape(t) ==
    \/ /\ Len(t) = 10
       /\ t[1] = "0"
       /\ \A i \in 2..10 : t[i] \in Digits
    \/ /\ Len(t) = 13
       /\ t[1] = "+" /\ t[2] = "3" /\ t[3] = "8" /\ t[4] = "0"
       /\ \A i \in 5..13 : t[i] \in Digits

\* C15: in waiting_for_phone a text is accepted if and only if, trimmed, it
\* is '0' and 9 digits or '+380' and 9 digits; an accepted phone is stored in
\* the bag and the waypoint becomes waiting_for_area, any other text leaves
\* the waypoint and the bag as they were.
C15_PhonePattern ==
    [][\A u \in Users, text \in PhoneCases :
          (/\ fsm_state[u] = "waiting_for_phone"
           /\ out'.user = u /\ out'.event = "phone"
           /\ order_phone(u, text)) =>
              IF PhoneShape(Strip(text))
              THEN /\ fsm_state'[u] = "waiting_for_area"
                   /\ fsm_data'[u] = update_data(fsm_data[u], [phone |-> Strip(text)])
                   /\ fsm_data'[u].phone = Strip(text)
              ELSE /\ fsm_state'[u] = "waiting_for_phone"
                   /\ fsm_data' = fsm_data]_vars

\* A phone of the +380 form, typed with a leading blank, is in the bag of a
\* user who is now asked for the area
C15_Witness ==
    \E u \in Users :
        /\ fsm_state[u] = "waiting_for_area"
        /\ out.event = "phone" /\ out.user = u
        /\ Len(fsm_data[u].phone) = 13

-----------------------------------------------------------------------------
(* Tokens: an admin presses the buttons of the admin flows in any waypoint *)

\* The city buttons that are pressed
PressedCityIds == 1..2

NextTokens ==
    \/ add_city_start("a1")
    \/ \E text \in {<<"O">>} : add_city_finish("a1", text)
    \/ add_product_start("a1")
    \/ add_product_photo("a1")
    \/ edit_product_choose("a1", Rose)
    \/ delete_product_show_cities("a1", Rose)
    \/ \E c \in PressedCityIds : cb_city_select("a1", c)
    \/ cb_cities_confirmed("a1")
    \/ \E c \in {1} : cb_copy_from("a1", c)
    \/ cb_no_copy_products("a1")
    \/ \E f \in Fields : cb_field("a1", f)
    \/ \E c \in PressedCityIds : cb_del_city_select("a1", c)
    \/ cb_confirm_deletion("a1")
    \/ cb_delete_all_cities("a1")

SpecTokens == Init /\ [][NextTokens]_vars

\* The waypoint in which a scoped button token is taken
ScopeOf(token) ==
    CASE token \in {"city_select", "cities_confirmed"} -> "AddProduct.cities"
      [] token \in {"copy_from", "no_copy_products"} -> "AddCity.waiting_for_products"
      [] token = "field" -> "EditProduct.waiting_for_field"
      [] token \in {"del_city_select", "confirm_deletion", "delete_all_cities"}
            -> "DeleteProduct.waiting_for_cities"

ScopedTokens ==
    {"city_select", "cities_confirmed", "copy_from", "no_copy_products", "field",
     "del_city_select", "confirm_deletion", "delete_all_cities"}

\* C17: a waypoint-scoped button token pressed in any waypoint other than
\* its own leaves the session and the store unchanged.
C17_ScopedTokensIgnored ==
    [][\A u \in Users, token \in ScopedTokens :
          (/\ out'.user = u /\ out'.event = token
           /\ fsm_state[u] # ScopeOf(token)) =>
              UNCHANGED <<store, fsm_state, fsm_data>>]_vars

\* delete_all_cities was pressed while the admin was choosing the cities of
\* a new product; the catalog is whole and the admin is still choosing
C17_Witness ==
    /\ out.event = "delete_all_cities" /\ out.reply = "none"
    /\ fsm_state[out.user] = "AddProduct.cities"
    /\ fsm_data[out.user].selected_cities # {}
    /\ DOMAIN products = 1..3

\* C34: in AddProduct.cities, city_select:<id> puts the id into the selected
\* set when it is not there and takes it out when it is, so that a second
\* press restores the set; cities_confirmed with an empty set leaves the
\* session as it was, and with a non-empty set moves to AddProduct.photo
\* with the set kept.
C34_ToggleSelection ==
    /\ [](\A u \in ADMIN_IDS, c \in CityIds :
            fsm_state[u] = "AddProduct.cities" =>
                Toggle(Toggle(fsm_data[u].selected_cities, c), c)
                    = fsm_data[u].selected_cities)
    /\ [][\A u \in ADMIN_IDS :
            (fsm_state[u] = "AddProduct.cities" /\ out'.user = u) =>
                LET S == fsm_data[u].selected_cities
                    T == fsm_data'[u].selected_cities
                IN  /\ out'.event = "city_select" =>
                          /\ fsm_state'[u] = "AddProduct.cities"
                          /\ \E c \in CityIds :
                                T = IF c \in S THEN S \ {c} ELSE S \cup {c}
                    /\ out'.event = "cities_confirmed" =>
                          IF S = {}
                          THEN UNCHANGED <<fsm_state, fsm_data>>
                          ELSE fsm_state'[u] = "AddProduct.photo" /\ T = S]_vars

\* A second press of a city button has emptied the selected set again
C34_Witness ==
    /\ out.event = "city_select" /\ out.reply = "toggled"
    /\ fsm_state[out.user] = "AddProduct.cities"
    /\ fsm_data[out.user].selected_cities = {}

-----------------------------------------------------------------------------
(* Texts: a customer and a manager write text in any waypoint *)

\* A quantity and a phone number
TextCases ==
    { <<"1">>, <<"0", "5", "0", "1", "2", "3", "4", "5", "6", "7">> }

NextText ==
    \/ add_to_cart("u1", 3)
    \/ buy_product("u1", 1)
    \/ accept_order("a1", 1)
    \/ \E u \in {"u1", "a1"}, text \in TextCases, ok \in BOOLEAN : on_text(u, text, ok)

SpecText == InitOrder /\ [][NextText]_vars

\* The waypoints that expect text input
TextWaypoints ==
    {"waiting_for_quantity", "waiting_for_phone", "waiting_for_area",
     "waiting_for_comment", "waiting_for_accept_message", "waiting_for_reject_reason",
     "waiting_for_feedback", "waiting_for_content",
     "AddCity.waiting_for_name", "EditCity.waiting_for_new_name", "AddProduct.name",
     "AddProduct.description", "AddProduct.price", "EditProduct.waiting_for_value"}

\* C18: a text message from a user whose session is idle is dropped: the
\* store and every session are unchanged and nothing is sent; a text
\* message changes the store or a session only in a waypoint that expects text.
C18_IdleTextDropped ==
    [][\A u \in Users :
          (/\ out'.user = u
           /\ \E text \in TextCases, ok \in BOOLEAN : on_text(u, text, ok)) =>
              /\ fsm_state[u] = "idle" =>
                    /\ UNCHANGED <<store, fsm_state, fsm_data>>
                    /\ out'.reply = "none"
              /\ ~UNCHANGED <<store, fsm_state, fsm_data>> =>
                    fsm_state[u] \in TextWaypoints]_vars

\* An idle customer with a filled cart wrote a text after an order of theirs
\* was placed, and nothing came of it
C18_Witness ==
    /\ out.event = "text" /\ out.reply = "none" /\ out.user = "u1"
    /\ fsm_state["u1"] = "idle"
    /\ Len(orders) > 0
    /\ UserLines("u1") # <<>>

-----------------------------------------------------------------------------
(* Sessions: whose events touch whose session *)

\* C19: no event of a user changes the waypoint or the field bag of another
\* user; a manager's accept or reject of an order leaves its customer's
\* session as it was.
C19_SessionOwnedByUser ==
    [][\A u \in Users, v \in Users :
          (out'.user = u /\ v # u) =>
              /\ fsm_state'[v] = fsm_state[v]
              /\ fsm_data'[v] = fsm_data[v]]_vars

\* A manager has sent the feedback of an order of a customer who is by then
\* giving the phone number of a next order
C19_Witness ==
    /\ out.user \in ADMIN_IDS
    /\ out.event \in {"accepted", "rejected"}
    /\ out.customer # NoMsg
    /\ out.customer.to = "u2"
    /\ fsm_state["u2"] = "waiting_for_phone"
    /\ fsm_data["u2"] # NoData

-----------------------------------------------------------------------------
(* Flights: polling makes a task of every update, and the runs of
   order_comment are suspended at their awaits *)

NextFlight ==
    \/ buy_product("u1", 1)
    \/ cart_checkout("u2")
    \/ \E u \in Customers, text \in PhoneTexts : order_phone(u, text)
    \/ \E u \in Customers, text \in AreaTexts : order_area(u, text)
    \/ \E u \in Customers, text \in CommentTexts, id \in 1..MaxFlights :
            order_comment_begin(u, text, id)
    \/ \E t \in inflight, ok \in BOOLEAN : order_comment_resume(t, ok)

\* The carts the store holds when the run starts
InitFlight ==
    StartWith(<< [user_id |-> "u1", product_id |-> 1, quantity |-> 1],
                 [user_id |-> "u2", product_id |-> 2, quantity |-> 2] >>)

SpecFlight == InitFlight /\ [][NextFlight]_vars

\* C20: no two handler runs of the same user are in progress at the same time.
C20_SingleFlight ==
    \A u \in Users : Cardinality({t \in inflight : t.user = u}) <= 1

-----------------------------------------------------------------------------
(* Catalog: what the admin flows do to cities and products *)

\* C23: every product row belongs to an existing city: the city id of every
\* product is the id of a row of the cities table.
C23_ProductsHaveCity ==
    \A p \in DOMAIN products : products[p].city_id \in DOMAIN cities

-----------------------------------------------------------------------------
(* Names: two admins add and rename cities, their runs suspended at the awaits *)

NextNames ==
    \E a \in ADMIN_IDS :
        \/ add_city_start(a)
        \/ \E text \in NameTexts : add_city_finish(a, text)
        \/ \E text \in {<<"O">>}, id \in 1..MaxFlights : add_city_finish_begin(a, text, id)
        \/ \E t \in inflight : add_city_finish_resume(t)
        \/ no_copy_products(a)
        \/ \E c \in PressedCityIds : edit_city_choose(a, c)
        \/ \E text \in NameTexts : edit_city_finish(a, text)

SpecNames == Init /\ [][NextNames]_vars

UniqueNames == \A c \in DOMAIN cities, d \in DOMAIN cities : cities[c] = cities[d] => c = d

\* C22: no two cities ever have the same name; adding a city under a name
\* that exists, found by the lookup or only by the insert of a suspended run,
\* leaves the cities table unchanged and clears the admin's session; renaming
\* a city to the name of another city leaves the cities table unchanged.
C22_CityNamesUnique ==
    /\ UniqueNames
    /\ [][/\ UniqueNames'
          /\ \A a \in ADMIN_IDS :
                (/\ fsm_state[a] = "AddCity.waiting_for_name"
                 /\ out'.user = a
                 /\ \/ \E text \in NameTexts :
                          Strip(text) \in CityNames /\ add_city_finish(a, text)
                    \/ \E t \in inflight :
                          /\ t.user = a /\ t.text \in CityNames
                          /\ add_city_finish_resume(t)) =>
                    /\ cities' = cities
                    /\ fsm_state'[a] = "idle" /\ fsm_data'[a] = NoData
          /\ \A a \in ADMIN_IDS :
                (/\ fsm_state[a] = "EditCity.waiting_for_new_name"
                 /\ out'.user = a
                 /\ \E text \in NameTexts :
                       /\ \E c \in DOMAIN cities :
                             c # fsm_data[a].city_id /\ cities[c] = Strip(text)
                       /\ edit_city_finish(a, text)) =>
                    cities' = cities]_vars

\* The insert of a suspended add_city_finish met the name that the other
\* admin had inserted meanwhile
C22_Witness ==
    /\ out.event = "city_name" /\ out.reply = "error"
    /\ fsm_state[out.user] = "idle"
    /\ Cardinality(DOMAIN cities) = 3
    /\ UniqueNames

-----------------------------------------------------------------------------
(* Products: an admin adds a product and edits the products of a name *)

\* A price, a negative price, a word and the word that float() takes
PriceCases == { <<"5", "0">>, <<"-", "5">>, <<"x">>, <<"n", "a", "n">> }

NextProducts ==
    \/ add_product_start("a1")
    \/ toggle_city_selection("a1", 1)
    \/ confirm_cities_selection("a1")
    \/ add_product_photo("a1")
    \/ add_product_name("a1", <<"x">>)
    \/ add_product_desc("a1", <<"x">>)
    \/ \E text \in PriceCases : add_product_price("a1", text)
    \/ \E n \in {Rose, <<"x">>} : edit_product_choose("a1", n)
    \/ \E f \in Fields : edit_product_field("a1", f)
    \/ \E text \in {<<"5", "0">>, <<"x">>} : edit_product_value("a1", text)

SpecProducts == Init /\ [][NextProducts]_vars

\* C24: the price of every product is non-negative.
C24_PricesNonNegative ==
    \A p \in DOMAIN products : products[p].price >= 0


\* The value that a text gives to a field
ValueFor(f, text) == IF f = "price" THEN IntOf(text) ELSE Strip(text)

\* C25: completing the edit-product flow for name n, field f and value v sets
\* f to v on every product whose name is n, in whatever city, and changes no
\* other field, no product of another name, and no product's id or city.
C25_EditByName ==
    [][\A a \in ADMIN_IDS, text \in {<<"5", "0">>, <<"x">>} :
          (/\ fsm_state[a] = "EditProduct.waiting_for_value"
           /\ out'.user = a /\ out'.reply = "product_updated"
           /\ fsm_data[a].field \in Fields
           /\ edit_product_value(a, text)) =>
              LET n == fsm_data[a].product_name
                  f == fsm_data[a].field
              IN  /\ DOMAIN products' = DOMAIN products
                  /\ \A p \in DOMAIN products :
                        IF products[p].name = n
                        THEN /\ products'[p][f] = ValueFor(f, text)
                             /\ \A g \in {"city_id", "name", "description", "price"} \ {f} :
                                   products'[p][g] = products[p][g]
                        ELSE products'[p] = products[p]]_vars

\* The price of the products of one name, in two cities, was set at once,
\* and a product of another name kept its price
C25_Witness ==
    /\ out.event = "value" /\ out.reply = "product_updated"
    /\ products[1].name = Rose /\ products[2].name = Rose
    /\ products[1].city_id # products[2].city_id
    /\ products[1].price = 50 /\ products[2].price = 50
    /\ products[3].price = 30

-----------------------------------------------------------------------------
(* Access: an admin and a customer send the commands, buttons and texts of
   the city flows while the carts are filled *)

NextAccess ==
    \E u \in {"a1", "u1"} :
        \/ admin_panel(u)
        \/ add_city_start(u)
        \/ \E text \in {<<"O">>} : add_city_finish(u, text)
        \/ \E c \in PressedCityIds : copy_products_from_city(u, c)
        \/ no_copy_products(u)
        \/ \E c \in CityIds : delete_city(u, c)

SpecAccess == InitOrder /\ [][NextAccess]_vars

\* C21: delete_city(c) removes city c and every product whose city is c and
\* leaves every other city and product, the cart lines and the order rows
\* as they were; cart lines of the deleted products stay in the cart table.
C21_DeleteCityFrame ==
    [][\A a \in Users, c \in CityIds :
          (out'.event = "delete_city" /\ delete_city(a, c)) =>
              /\ DOMAIN cities' = DOMAIN cities \ {c}
              /\ \A d \in DOMAIN cities' : cities'[d] = cities[d]
              /\ DOMAIN products' = {p \in DOMAIN products : products[p].city_id # c}
              /\ \A p \in DOMAIN products' : products'[p] = products[p]
              /\ cart' = cart
              /\ orders' = orders]_vars

\* A city was deleted and a cart line names a product that went with it
C21_Witness ==
    /\ out.event = "delete_city"
    /\ \E i \in 1..Len(cart) :
          /\ cart[i].product_id \notin DOMAIN products
          /\ cart[i].product_id <= product_seq

\* C26: no event of an identity outside the admin allow-list changes the
\* cities or the products.
C26_OnlyAdminsChangeCatalog ==
    [][\A u \in Users \ ADMIN_IDS :
          out'.user = u => UNCHANGED <<cities, products>>]_vars

-----------------------------------------------------------------------------
(* Terms: every identity starts the bot and answers the terms *)

NextTerms ==
    \E u \in Users :
        \/ cmd_start(u)
        \/ accept_terms(u)
        \/ decline_terms(u)

SpecTerms == Init /\ [][NextTerms]_vars

Agreed(us, u) == u \in DOMAIN us /\ us[u] = 1

\* C27: once the terms-accepted flag of a user is set it is set in every
\* later state, whatever events follow.
C27_TermsFlagMonotone ==
    [][\A u \in Users : Agreed(users, u) => Agreed(users', u)]_vars

\* A user whose flag is set pressed the decline button, another registered
\* user has not accepted; the flag is still set
C27_Witness ==
    /\ out.event = "terms_decline"
    /\ Agreed(users, out.user)
    /\ \E v \in Users \ {out.user} : v \in DOMAIN users /\ users[v] = 0


\* C29: a price text that is not a number, entered in AddProduct.price or in
\* EditProduct.waiting_for_value with field price, changes no product row,
\* leaves the waypoint and the field bag as they were, and the admin is
\* prompted again.
C29_BadPriceReprompts ==
    [][\A a \in ADMIN_IDS, text \in PriceCases :
          (/\ ~IsInt(text)
           /\ out'.user = a
           /\ \/ /\ fsm_state[a] = "AddProduct.price"
                 /\ add_product_price(a, text)
              \/ /\ fsm_state[a] = "EditProduct.waiting_for_value"
                 /\ fsm_data[a].field = "price"
                 /\ edit_product_value(a, text)) =>
              /\ UNCHANGED <<products, product_seq, fsm_state, fsm_data>>
              /\ out'.reply = "bad_price"]_vars

-----------------------------------------------------------------------------
(* Errors: the admins rename cities, with well-formed and malformed tokens *)

NextErrors ==
    \E a \in ADMIN_IDS :
        \/ \E c \in PressedCityIds, wellformed \in BOOLEAN : cb_edit_city(a, c, wellformed)
        \/ \E text \in NameTexts : edit_city_finish(a, text)
        \/ admin_panel(a)

SpecErrors == Init /\ [][NextErrors]_vars

\* C31: the user whose event raised an error that the handler did not catch
\* receives an apology.
C31_ErrorAnswered ==
    [][\A u \in Users :
          (out'.user = u /\ error_handler(u, "edit_city")) => out'.reply = "apology"]_vars


\* C35: the accept/reject pair of the staff message of a cart checkout names
\* the first order row that this finalization inserted, a row of the
\* customer who checked out, also when the finalizations of two customers
\* are in progress at the same time.
C35_ButtonsKeyedByOwnOrder ==
    [][(out'.event = "comment" /\ out'.staff.kind = "cart_order"
            /\ Len(orders') > Len(orders)) =>
          LET id == out'.staff.accept
          IN  /\ out'.staff.reject = id
              /\ id = Len(orders) + 1
              /\ id <= Len(orders')
              /\ orders'[id].user_id = out'.user
              /\ \A i \in id..Len(orders') : orders'[i].user_id = out'.user]_vars

\* A cart checkout of two units was finalized after the order of another
\* customer, whose finalization had begun later
C35_Witness ==
    /\ out.event = "comment" /\ out.user = "u2"
    /\ out.staff.kind = "cart_order"
    /\ out.staff.accept = 2
    /\ Len(out.staff.order_ids) = 2
    /\ Len(orders) = 3
    /\ orders[1].user_id = "u1"

\* ---------------------------------------------------------------------
\* Decisions on the rows of one cart checkout
\* ---------------------------------------------------------------------

\* Two managers decide on the orders of a customer whose cart holds two
\* units, so that one checkout writes two order rows
NextDecide ==
    \/ Ordering("u2", {2})
    \/ \E m \in ADMIN_IDS : Managing(m, PressedOrderIds)

SpecDecide == InitFlight /\ [][NextDecide]_vars

\* C36: processing a manager's accept message or reject reason changes the
\* status of exactly one order row, the one whose id is in that manager's
\* field bag; every other row, the other rows of the same cart checkout
\* included, stays as it was, and no row is added or removed
C36_OneRowDecided ==
    [][\A m \in ADMIN_IDS :
          ( /\ fsm_state[m] \in {"waiting_for_accept_message",
                                 "waiting_for_reject_reason"}
            /\ out'.user = m
            /\ out'.event \in {"accepted", "rejected"}
            /\ \/ \E text \in FeedbackTexts, ok \in BOOLEAN :
                      send_accept_feedback(m, text, ok)
               \/ \E text \in FeedbackTexts, ok \in BOOLEAN :
                      send_reject_feedback(m, text, ok) )
          => /\ Len(orders') = Len(orders)
             /\ \A i \in 1..Len(orders) :
                   IF i = fsm_data[m].order_id
                   THEN orders'[i] = [orders[i] EXCEPT !.status = out'.event]
                   ELSE orders'[i] = orders[i]]_vars

\* One row of a two-row cart checkout is decided, its sibling still pending
C36_Witness ==
    /\ out.event \in {"accepted", "rejected"}
    /\ Len(orders) = 2
    /\ orders[1].user_id = "u2" /\ orders[2].user_id = "u2"
    /\ orders[1].status = out.event
    /\ orders[2].status = "pending"
    /\ out.customer.order_id = 1

\* ---------------------------------------------------------------------
\* Failed finalizations
\* ---------------------------------------------------------------------

\* C37: a finalization that ends with the customer being told that placing
\* the order failed has left no order row in the store and has not changed
\* any cart.
C37_FailedLeavesNothing ==
    [][\A u \in Users :
          (/\ fsm_state[u] = "waiting_for_comment"
           /\ out'.user = u /\ out'.event = "comment"
           /\ out'.reply = "order_failed"
           /\ \E text \in CommentTexts, ok \in BOOLEAN : order_comment(u, text, ok)) =>
              /\ orders' = orders
              /\ cart' = cart]_vars

\* C38: every step that inserts order rows also attempts the notification of
\* the staff channel about them, in the same handler run: the message that
\* is sent carries the buttons of one of the rows just inserted.
C38_InsertedIsAnnounced ==
    [][Len(orders') > Len(orders) =>
          /\ out'.staff.kind # "none"
          /\ out'.staff.accept \in (Len(orders) + 1)..Len(orders')]_vars

\* ---------------------------------------------------------------------
\* Contact data of an order
\* ---------------------------------------------------------------------

\* Phone texts: two that match the pattern, one of them sent with blanks
\* around it, and one that does not match
ContactPhones ==
    { <<"0", "5", "0", "1", "2", "3", "4", "5", "6", "7">>,
      <<" ", "0", "6", "7", "1", "2", "3", "4", "5", "6", "7", " ">>,
      <<"0", "5", "0", "1", "2", "3", "4", "5", "6">> }

ContactAreas == { <<"c">>, <<" ", "d">> }

\* One customer starts order flows from the cart and from a buy button,
\* abandons them for another start or for the cart, and finalizes some
NextContact ==
    \/ cart_checkout("u1")
    \/ buy_product("u1", 1)
    \/ \E text \in ContactPhones : order_phone("u1", text)
    \/ \E text \in ContactAreas : order_area("u1", text)
    \/ \E ok \in BOOLEAN : order_comment("u1", <<"-">>, ok)
    \/ add_to_cart("u1", 3)

SpecContact == InitOrder /\ [][NextContact]_vars

\* C39: every order row has a phone that matches the phone pattern, and the
\* phone and the area of a row that a finalization creates are the texts
\* (stripped) that the user sent after the most recent cart_checkout or buy
\* of that user, not values an earlier flow left in the field bag.
C39_ContactOfThisFlow ==
    /\ [](\A i \in 1..Len(orders) : valid_phone(orders[i].phone))
    /\ [][\A u \in Customers :
             (/\ fsm_state[u] = "waiting_for_comment"
              /\ out'.user = u /\ out'.event = "comment"
              /\ Len(orders') > Len(orders)) =>
                 /\ snap[u].flow # "none"
                 /\ snap[u].phone # <<>> /\ snap[u].area # <<>>
                 /\ \A i \in (Len(orders) + 1)..Len(orders') :
                       /\ orders'[i].phone = Strip(snap[u].phone)
                       /\ orders'[i].area = Strip(snap[u].area)]_vars

\* Two finalizations of one customer, each row with the contact data of
\* its own flow
C39_Witness ==
    /\ out.event = "comment" /\ out.reply # "order_failed"
    /\ Len(orders) >= 2
    /\ orders[1].phone # orders[Len(orders)].phone
    /\ orders[1].area # orders[Len(orders)].area
    /\ orders[Len(orders)].phone = <<"0", "6", "7", "1", "2", "3", "4", "5", "6", "7">>

\* ---------------------------------------------------------------------
\* The shop and the terms
\* ---------------------------------------------------------------------

\* A customer starts the bot, answers the terms either way, and presses
\* cart and order buttons
NextShop ==
    \/ cmd_start("u1")
    \/ accept_terms("u1")
    \/ decline_terms("u1")
    \/ Carting("u1", {1}, {<<"1">>})
    \/ Ordering("u1", {1})

SpecShop == Init /\ [][NextShop]_vars

\* C40: no cart line and no order row belongs to a user whose
\* terms-accepted flag is not set.
C40_ShopNeedsTerms ==
    /\ \A i \in 1..Len(cart) : Agreed(users, cart[i].user_id)
    /\ \A i \in 1..Len(orders) : Agreed(users, orders[i].user_id)

====
